---- MODULE Spec2Model ----
(***************************************************************************)
(* AI Task Assigner: the provider factory, the four agents and the         *)
(* LangGraph workflow of backend/ai, the OAuth server and the data source  *)
(* manager of backend, as a state machine.                                 *)
(*                                                                         *)
(* A behaviour of the pipeline is one top-level call.  Init draws the      *)
(* call's arguments (args) and the process environment (environ); the      *)
(* actions execute the call.  backend_log is the list of answers the       *)
(* backend gave during the call, one entry per outbound call.  A behaviour *)
(* of the OAuth server is an interleaving of its request handlers; a       *)
(* behaviour of the data source manager is a sequence of calls.            *)
(***************************************************************************)
EXTENDS Integers, Sequences, FiniteSets, TLC

VARIABLES
    environ,       \* os.environ: variable name -> value, None when unset
    op,            \* the top-level call of this behaviour
    args,          \* the arguments as they were passed
    inputs,        \* the caller's argument objects as they are now
    pc,            \* position of the call: "start", "constructed", "invoke", "returned", "raised"
    node,          \* run_graph: the workflow node to execute next
    state,         \* run_graph: the WorkflowState
    started,       \* run_graph: the nodes that started, in order
    completed,     \* run_graph: the nodes that returned, in order
    agent,         \* direct agent call: the constructed agent
    value,         \* the value the call returned (when pc = "returned")
    error,         \* the exception the call raised (when pc = "raised")
    backend_log,   \* the answers the backend (language model, GitHub) gave so far, in order
    auth_tokens,   \* oauth_server: session token -> its user and expiry
    now,           \* oauth_server: datetime.utcnow(), in days
    requests,      \* oauth_server: each request thread's position in its handler
    responses,     \* oauth_server: the responses sent so far, in order
    db_repositories,  \* database: the rows of table repositories, in insertion order
    db_developers,    \* database: the rows of table developers, in insertion order
    db_issues         \* database: the rows of table issues, in insertion order

server == <<auth_tokens, now, requests, responses>>

database == <<db_repositories, db_developers, db_issues>>

pipeline == <<environ, op, args, inputs, pc, node, state, started, completed,
              agent, value, error, backend_log>>

vars == <<environ, op, args, inputs, pc, node, state, started, completed,
          agent, value, error, backend_log,
          auth_tokens, now, requests, responses,
          db_repositories, db_developers, db_issues>>

----------------------------------------------------------------------------
(* Bounds *)

MaxIssues == 2          \* longest issue list passed to a call
MaxDevelopers == 2      \* longest developer list passed to a call
MaxAnswer == 2          \* most assignments in one backend answer
MaxAssignments == 2     \* longest assignment list passed to generate
MaxDrafts == 3          \* most drafts in one backend answer

----------------------------------------------------------------------------
(* Python values *)

None == "<None>"

\* `not x` for the values used here: None and the empty string are falsy
Falsy(x) == x = None \/ x = ""

\* `a or b`
Or(a, b) == IF Falsy(a) THEN b ELSE a

\* str.lower() on the provider identifiers of the model
Lower(s) ==
    CASE s = "OPENAI" -> "openai"
      [] s = "Gemini" -> "gemini"
      [] OTHER -> s

\* dict.update: the keys of src override those of dst, the others are kept
DictUpdate(dst, src) ==
    [k \in (DOMAIN dst) \cup (DOMAIN src) |->
        IF k \in DOMAIN src THEN src[k] ELSE dst[k]]

\* os.getenv(name, default)
Getenv(env, name, default) ==
    IF env[name] = None THEN default ELSE env[name]

Return(v) == [raised |-> FALSE, value |-> v]
Raise(e) == [raised |-> TRUE, error |-> e]

SeqsUpTo(S, n) == UNION {[1..k -> S] : k \in 0..n}

Min(a, b) == IF a < b THEN a ELSE b

----------------------------------------------------------------------------
(* Exceptions *)

ApiKeyRequired(kind) == [type |-> "ValueError", what |-> "api key required", kind |-> kind]
UnknownProvider == [type |-> "ValueError", what |-> "unknown provider type", kind |-> "none"]
UnexpectedKeyword == [type |-> "TypeError", what |-> "unexpected keyword argument", kind |-> "none"]
MissingKey == [type |-> "KeyError", what |-> "missing key", kind |-> "none"]
NoDictMethod == [type |-> "AttributeError", what |-> "dict object has no attribute dict", kind |-> "none"]
BackendError(t) == [type |-> t, what |-> "backend call failed", kind |-> "none"]

BackendErrorTypes == {"APIConnectionError", "OutputParserException"}

\* the exceptions the specification calls ConfigurationError
IsConfigurationError(e) ==
    e.type = "ValueError" /\ e.what \in {"api key required", "unknown provider type"}

----------------------------------------------------------------------------
(* llm_provider.py *)

EnvNames == {"AI_PROVIDER", "OPENAI_API_KEY", "GOOGLE_API_KEY",
             "OPENAI_MODEL", "GEMINI_MODEL", "OLLAMA_MODEL", "OLLAMA_BASE_URL"}

\* the providers as constructed; temperature is in tenths (7 is 0.7)
OpenAIProvider(api_key, model) ==
    [class |-> "OpenAIProvider", api_key |-> api_key, model |-> model,
     base_url |-> None, parser |-> "JsonOutputParser", temperature |-> 0]

GeminiProvider(api_key, model) ==
    [class |-> "GeminiProvider", api_key |-> api_key, model |-> model,
     base_url |-> None, parser |-> "JsonOutputParser", temperature |-> 0]

OllamaProvider(base_url, model) ==
    [class |-> "OllamaProvider", api_key |-> "not-needed", model |-> model,
     base_url |-> base_url, parser |-> "JsonOutputParser", temperature |-> 7]

\* create_provider with the credential check of the cloud kinds left out
create_provider_unchecked(env, provider_type, api_key, model, base_url) ==
    LET kind == Lower(provider_type) IN
    CASE kind = "openai" ->
            Return(OpenAIProvider(Or(api_key, Getenv(env, "OPENAI_API_KEY", None)),
                                  Or(model, Getenv(env, "OPENAI_MODEL", "gpt-4o-mini"))))
      [] kind = "gemini" ->
            Return(GeminiProvider(Or(api_key, Getenv(env, "GOOGLE_API_KEY", None)),
                                  Or(model, Getenv(env, "GEMINI_MODEL", "gemini-1.5-pro"))))
      [] kind = "ollama" ->
            Return(OllamaProvider(Or(base_url, Getenv(env, "OLLAMA_BASE_URL", "http://localhost:1234")),
                                  Or(model, Getenv(env, "OLLAMA_MODEL", "llama-3.2-1b-instruct"))))
      [] OTHER -> Raise(UnknownProvider)

\* create_provider with an unknown kind treated as the local kind
create_provider_fallback(env, provider_type, api_key, model, base_url) ==
    LET kind == Lower(provider_type) IN
    CASE kind = "openai" ->
            LET key == IF Falsy(api_key) THEN Getenv(env, "OPENAI_API_KEY", None) ELSE api_key IN
            IF Falsy(key) THEN Raise(ApiKeyRequired("openai"))
            ELSE Return(OpenAIProvider(key, Or(model, Getenv(env, "OPENAI_MODEL", "gpt-4o-mini"))))
      [] kind = "gemini" ->
            LET key == IF Falsy(api_key) THEN Getenv(env, "GOOGLE_API_KEY", None) ELSE api_key IN
            IF Falsy(key) THEN Raise(ApiKeyRequired("gemini"))
            ELSE Return(GeminiProvider(key, Or(model, Getenv(env, "GEMINI_MODEL", "gemini-1.5-pro"))))
      [] OTHER ->
            Return(OllamaProvider(Or(base_url, Getenv(env, "OLLAMA_BASE_URL", "http://localhost:1234")),
                                  Or(model, Getenv(env, "OLLAMA_MODEL", "llama-3.2-1b-instruct"))))

create_provider(env, provider_type, api_key, model, base_url) ==
    LET kind == Lower(provider_type) IN
    CASE kind = "openai" ->
            LET key == IF Falsy(api_key) THEN Getenv(env, "OPENAI_API_KEY", None) ELSE api_key IN
            IF Falsy(key) THEN Raise(ApiKeyRequired("openai"))
            ELSE Return(OpenAIProvider(key, Or(model, Getenv(env, "OPENAI_MODEL", "gpt-4o-mini"))))
      [] kind = "gemini" ->
            LET key == IF Falsy(api_key) THEN Getenv(env, "GOOGLE_API_KEY", None) ELSE api_key IN
            IF Falsy(key) THEN Raise(ApiKeyRequired("gemini"))
            ELSE Return(GeminiProvider(key, Or(model, Getenv(env, "GEMINI_MODEL", "gemini-1.5-pro"))))
      [] kind = "ollama" ->
            Return(OllamaProvider(Or(base_url, Getenv(env, "OLLAMA_BASE_URL", "http://localhost:1234")),
                                  Or(model, Getenv(env, "OLLAMA_MODEL", "llama-3.2-1b-instruct"))))
      [] OTHER -> Raise(UnknownProvider)

\* a provider that is not one of this module's three classes: any other
\* implementation of the LLMProvider interface handed to an agent
StubProvider ==
    [class |-> "StubProvider", api_key |-> None, model |-> "stub",
     base_url |-> None, parser |-> "custom"]

\* the argument provider=None of an agent's constructor
NoProvider ==
    [class |-> "None", api_key |-> None, model |-> None,
     base_url |-> None, parser |-> "none"]

----------------------------------------------------------------------------
(* Records of the data model *)

IssueIds == {"i1", "i2", "i3"}
DeveloperIds == {"d1", "d2"}

\* an identifier the backend invents: it names no record of the input
ForeignIssueId == "i9"
ForeignDeveloperId == "d9"

NameOf(d) ==
    CASE d = "d1" -> "Ann"
      [] d = "d2" -> "Bob"
      [] OTHER -> "Eve"

\* raw input records (main.py loads them from issues.json / developers.json)
Issue(i) == [id |-> i, title |-> "t", description |-> "d"]
Developer(d) == [id |-> d, name |-> NameOf(d)]

\* lists without a repeated element, at most n long
Lists(S, n) == {s \in SeqsUpTo(S, n) : \A j, k \in DOMAIN s : j # k => s[j] # s[k]}

IssueLists == Lists({Issue(i) : i \in IssueIds}, MaxIssues)
DeveloperLists == Lists({Developer(d) : d \in DeveloperIds}, MaxDevelopers)

\* what the language-model backend answers to one call; a call either fails
\* (the chain raises) or yields the parsed JSON body
JsonAnswer(body) == [kind |-> "json", body |-> body]
ErrorAnswer(t) == [kind |-> "raise", error |-> BackendError(t)]
ErrorAnswers == {ErrorAnswer(t) : t \in BackendErrorTypes}

----------------------------------------------------------------------------
(* llm_provider.py: get_json_completion of the three providers *)

\* the JSON value null, which the parser returns as None
JsonNull == [json_null |-> TRUE]

\* the exceptions chain.invoke raises: the two above and the backend's 404
\* for a model it does not serve
ProviderErrorTypes == BackendErrorTypes \cup {"NotFound"}

\* the parser's exception for a reply that is not JSON: its message quotes
\* the reply, here prose in which the backend writes of a refused connection
QuotingParseError ==
    [type |-> "OutputParserException",
     what |-> "invalid json output: Connection refused is what the log shows",
     kind |-> "none"]

ModelNotFound == [type |-> "ValueError", what |-> "model not found", kind |-> "gemini"]
CannotConnect == [type |-> "ValueError", what |-> "cannot connect", kind |-> "ollama"]
ReturnedNone ==
    [type |-> "ValueError",
     what |-> "local AI server returned None, check if the server is running",
     kind |-> "ollama"]

\* which of the substrings the providers look for occur in str(e)
ErrorText(e) ==
    CASE e = QuotingParseError -> {"Connection", "refused"}
      [] e = ReturnedNone -> {}
      [] e.type = "APIConnectionError" -> {"Connection"}
      [] e.type = "NotFound" -> {"404", "not found"}
      [] OTHER -> {}

\* get_json_completion with the local provider's handler reporting every
\* exception as the cannot-connect error
get_json_completion_all_cannot_connect(provider, schema, answer) ==
    CASE provider.class = "OpenAIProvider" ->
            IF answer.kind = "raise" THEN Raise(answer.error) ELSE Return(answer.body)
      [] provider.class = "GeminiProvider" ->
            IF answer.kind = "raise"
            THEN IF {"404", "not found"} \subseteq ErrorText(answer.error)
                 THEN Raise(ModelNotFound)
                 ELSE Raise(answer.error)
            ELSE Return(answer.body)
      [] provider.class = "OllamaProvider" ->
            IF answer.kind = "json" /\ answer.body # JsonNull
            THEN Return(answer.body)
            ELSE Raise(CannotConnect)

\* answer: what chain.invoke does, with JsonOutputParser(pydantic_object=schema)
\* as the last link: the parser uses the schema for the format instructions
\* only and returns the parsed JSON value as it is
get_json_completion(provider, schema, answer) ==
    CASE provider.class = "OpenAIProvider" ->
            IF answer.kind = "raise" THEN Raise(answer.error) ELSE Return(answer.body)
      [] provider.class = "GeminiProvider" ->
            IF answer.kind = "raise"
            THEN IF {"404", "not found"} \subseteq ErrorText(answer.error)
                 THEN Raise(ModelNotFound)
                 ELSE Raise(answer.error)
            ELSE Return(answer.body)
      [] provider.class = "OllamaProvider" ->
            LET e == IF answer.kind = "raise" THEN answer.error ELSE ReturnedNone IN
            IF answer.kind = "json" /\ answer.body # JsonNull
            THEN Return(answer.body)
            ELSE IF ErrorText(e) \cap {"Connection", "refused"} # {}
                 THEN Raise(CannotConnect)
                 ELSE Raise(e)

----------------------------------------------------------------------------
(* issue_agent.py *)

Difficulties == {"easy", "medium", "hard", "expert"}

IssueAnalysisKeys == {"required_skills", "difficulty", "summary", "estimated_complexity"}

IssueAnalysisBodies ==
    { [required_skills |-> <<"A">>, difficulty |-> "easy", summary |-> "s",
       estimated_complexity |-> 3],
      [required_skills |-> <<"B">>, difficulty |-> "trivial", summary |-> "s",
       estimated_complexity |-> 11, issue_id |-> ForeignIssueId] }

IssueAnswers == {JsonAnswer(b) : b \in IssueAnalysisBodies} \cup ErrorAnswers

\* IssueAnalyzer(**{kw: v}): the constructor has the one parameter api_key
IssueAnalyzerInit(env, kw, v) ==
    IF kw # "api_key" THEN Raise(UnexpectedKeyword)
    ELSE LET key == Or(v, Getenv(env, "OPENAI_API_KEY", None)) IN
         IF Falsy(key) THEN Raise(ApiKeyRequired("openai"))
         ELSE Return([class |-> "IssueAnalyzer", api_key |-> key, model |-> "gpt-4o-mini"])

\* analyze returning the parsed answer as it came
IssueAnalyzerAnalyzeAsAnswered(issue, answer) ==
    IF answer.kind = "raise" THEN Raise(answer.error)
    ELSE Return(answer.body)

IssueAnalyzerAnalyze(issue, answer) ==
    IF answer.kind = "raise" THEN Raise(answer.error)
    ELSE Return(DictUpdate(answer.body, [issue_id |-> issue.id]))

----------------------------------------------------------------------------
(* dev_agent.py *)

WorkloadStates == {"available", "moderate", "busy", "overloaded"}

DeveloperAnalysisKeys == {"strengths", "weaknesses", "preferred_skills",
                          "workload_state", "availability_hours", "skill_match_score"}

DeveloperAnalysisBodies ==
    { [strengths |-> <<"A">>, weaknesses |-> <<>>, preferred_skills |-> <<"A">>,
       workload_state |-> "available", availability_hours |-> 20, skill_match_score |-> 8],
      [strengths |-> <<"B">>, weaknesses |-> <<>>, preferred_skills |-> <<>>,
       workload_state |-> "swamped", availability_hours |-> -5, skill_match_score |-> 0,
       developer_id |-> ForeignDeveloperId, developer_name |-> NameOf(ForeignDeveloperId)] }

DeveloperAnswers == {JsonAnswer(b) : b \in DeveloperAnalysisBodies} \cup ErrorAnswers

DeveloperAnalyzerInit(env, kw, v) ==
    IF kw # "api_key" THEN Raise(UnexpectedKeyword)
    ELSE LET key == Or(v, Getenv(env, "OPENAI_API_KEY", None)) IN
         IF Falsy(key) THEN Raise(ApiKeyRequired("openai"))
         ELSE Return([class |-> "DeveloperAnalyzer", api_key |-> key, model |-> "gpt-4o-mini"])

DeveloperAnalyzerAnalyze(developer, answer) ==
    IF answer.kind = "raise" THEN Raise(answer.error)
    ELSE Return(DictUpdate(answer.body,
                           [developer_id |-> developer.id, developer_name |-> developer.name]))

----------------------------------------------------------------------------
(* assign_agent.py *)

\* analyzed records as the analyzers produce them from a conformant answer
AnalyzedIssue(i) ==
    [issue_id |-> i, required_skills |-> <<"A">>, difficulty |-> "easy", summary |-> "s",
     estimated_complexity |-> 3]

AnalyzedDeveloper(d) ==
    [developer_id |-> d, developer_name |-> NameOf(d), strengths |-> <<"A">>,
     weaknesses |-> <<>>, preferred_skills |-> <<"A">>, workload_state |-> "available",
     availability_hours |-> 20, skill_match_score |-> 8]

AnalyzedIssueLists == Lists({AnalyzedIssue(i) : i \in IssueIds}, MaxIssues)
AnalyzedDeveloperLists == Lists({AnalyzedDeveloper(d) : d \in DeveloperIds}, MaxDevelopers)

Assignment(i, d) ==
    [issue_id |-> i, assigned_to |-> d, developer_name |-> NameOf(d), reason |-> "fits",
     confidence_score |-> 7]

AssignmentKeys == {"issue_id", "assigned_to", "developer_name", "reason", "confidence_score"}

\* the assignments a backend answer can hold: the model is free to repeat an
\* issue, to leave one out, to name an identifier it was not given and to
\* give a confidence beyond the scale
AnswerAssignments ==
    {Assignment(i, d) : i \in {"i1", "i2", ForeignIssueId}, d \in {"d1", ForeignDeveloperId}}
        \cup {[Assignment("i1", "d1") EXCEPT !.confidence_score = 11]}

AssignmentBodies ==
    {[assignments |-> s] : s \in SeqsUpTo(AnswerAssignments, MaxAnswer)}
        \cup {[note |-> "no assignments key"]}

AssignmentAnswers == {JsonAnswer(b) : b \in AssignmentBodies} \cup ErrorAnswers

AssignmentAgentInit(env, kw, v) ==
    IF kw # "api_key" THEN Raise(UnexpectedKeyword)
    ELSE LET key == Or(v, Getenv(env, "OPENAI_API_KEY", None)) IN
         IF Falsy(key) THEN Raise(ApiKeyRequired("openai"))
         ELSE Return([class |-> "AssignmentAgent", api_key |-> key, model |-> "gpt-4o-mini"])

\* the keys assign reads with issue[...] and dev[...] while it formats the prompt
AssignIssueKeys == {"issue_id", "required_skills", "difficulty", "estimated_complexity", "summary"}
AssignDeveloperKeys == {"developer_id", "developer_name", "strengths", "workload_state",
                        "availability_hours", "skill_match_score", "preferred_skills"}

\* result: the outcome and the backend answers consumed (log)
AssignmentAgentAssign(analyzed_issues, analyzed_developers, answer) ==
    IF \/ \E k \in DOMAIN analyzed_issues :
              ~(AssignIssueKeys \subseteq DOMAIN analyzed_issues[k])
       \/ \E k \in DOMAIN analyzed_developers :
              ~(AssignDeveloperKeys \subseteq DOMAIN analyzed_developers[k])
    THEN [out |-> Raise(MissingKey), log |-> <<>>]
    ELSE IF answer.kind = "raise" THEN [out |-> Raise(answer.error), log |-> <<answer>>]
    ELSE IF "assignments" \notin DOMAIN answer.body
         THEN [out |-> Raise(MissingKey), log |-> <<answer>>]
    ELSE [out |-> Return(answer.body.assignments), log |-> <<answer>>]

----------------------------------------------------------------------------
(* notification_agent.py *)

DraftFields ==
    [jira_title |-> "t", jira_description |-> "d", jira_priority |-> "High",
     slack_message |-> "s", messenger_message |-> "m"]

\* a draft in which the backend also wrote keys that an assignment has
DraftFieldsWithAssignmentKeys ==
    DictUpdate(DraftFields,
               [issue_id |-> ForeignIssueId, assigned_to |-> ForeignDeveloperId,
                developer_name |-> NameOf(ForeignDeveloperId), reason |-> "made up",
                confidence_score |-> 1])

\* an element of the answer's notifications list is a plain dict when the
\* provider parses with JsonOutputParser (the three providers of
\* llm_provider.py); another provider may return objects that have .dict()
DraftObjects(provider) ==
    IF provider.parser = "JsonOutputParser" THEN {"dict"} ELSE {"dict", "model"}

Drafts(provider) ==
    {[obj |-> o, fields |-> f] : o \in DraftObjects(provider),
                                 f \in {DraftFields, DraftFieldsWithAssignmentKeys}}

NotificationBodies(provider) ==
    {[notifications |-> s] : s \in SeqsUpTo(Drafts(provider), MaxDrafts)}
        \cup {[note |-> "no notifications key"]}

NotificationAnswers(provider) ==
    {JsonAnswer(b) : b \in NotificationBodies(provider)} \cup ErrorAnswers

NotificationAgentInit(env, provider) ==
    IF provider.class = "None"
    THEN LET p == create_provider(env, Getenv(env, "AI_PROVIDER", "openai"), None, None, None) IN
         IF p.raised THEN p
         ELSE Return([class |-> "NotificationAgent", provider |-> p.value])
    ELSE Return([class |-> "NotificationAgent", provider |-> provider])

\* result.get("notifications", [])
GetNotifications(body) ==
    IF "notifications" \in DOMAIN body THEN body.notifications ELSE <<>>

\* the merge of one draft with the assignment at the same index
\* (notification_data = draft.dict(); notification_data.update(assignments[i]))
MergeDraftSwapped(draft, assignment) == DictUpdate(assignment, draft.fields)

MergeDraft(draft, assignment) == DictUpdate(draft.fields, assignment)

\* generate without the `if not assignments: return []` of its first lines
NotificationAgentGenerateUnguarded(assignments, answer) ==
    IF answer.kind = "raise"
    THEN [out |-> Raise(answer.error), log |-> <<answer>>, assignments |-> assignments]
    ELSE LET drafts == GetNotifications(answer.body)
             n == Min(Len(drafts), Len(assignments))
         IN  IF \E i \in 1..n : drafts[i].obj = "dict"
             THEN [out |-> Raise(NoDictMethod), log |-> <<answer>>,
                   assignments |-> assignments]
             ELSE [out |-> Return([i \in 1..n |-> MergeDraft(drafts[i], assignments[i])]),
                   log |-> <<answer>>, assignments |-> assignments]

\* result: the outcome, the backend answers consumed (log) and the caller's
\* assignment list as generate leaves it
NotificationAgentGenerate(assignments, answer) ==
    IF Len(assignments) = 0
    THEN [out |-> Return(<<>>), log |-> <<>>, assignments |-> assignments]
    ELSE IF answer.kind = "raise"
    THEN [out |-> Raise(answer.error), log |-> <<answer>>, assignments |-> assignments]
    ELSE LET drafts == GetNotifications(answer.body)
             n == Min(Len(drafts), Len(assignments))
         IN  IF \E i \in 1..n : drafts[i].obj = "dict"
             THEN [out |-> Raise(NoDictMethod), log |-> <<answer>>,
                   assignments |-> assignments]
             ELSE [out |-> Return([i \in 1..n |-> MergeDraft(drafts[i], assignments[i])]),
                   log |-> <<answer>>, assignments |-> assignments]

----------------------------------------------------------------------------
(* graph.py *)

END == "__end__"

Nodes == <<"analyze_issues", "analyze_developers", "assign_tasks", "generate_notifications">>

\* workflow.set_entry_point with another node than the first
EntryPointSecond == Nodes[2]

\* workflow.set_entry_point("analyze_issues")
EntryPoint == Nodes[1]

\* workflow.add_edge(from, to)
Edge(n) ==
    CASE n = "analyze_issues" -> "analyze_developers"
      [] n = "analyze_developers" -> "assign_tasks"
      [] n = "assign_tasks" -> "generate_notifications"
      [] n = "generate_notifications" -> END

\* the WorkflowState run_graph builds
InitialState(issues, developers, api_key, model_name, provider_type) ==
    [issues |-> issues, developers |-> developers,
     analyzed_issues |-> <<>>, analyzed_developers |-> <<>>,
     assignments |-> <<>>, notifications |-> <<>>,
     api_key |-> api_key, model_name |-> model_name, provider_type |-> provider_type]

\* run_graph up to the validation: the provider type it settles on, or the
\* ValueError of a cloud kind without a key
RunGraphValidate(env, api_key, provider_type) ==
    LET ptype == IF Falsy(provider_type)
                 THEN Lower(Getenv(env, "AI_PROVIDER", "openai"))
                 ELSE provider_type
    IN  IF ptype = "openai" /\ Falsy(Or(api_key, Getenv(env, "OPENAI_API_KEY", None)))
        THEN Raise(ApiKeyRequired("openai"))
        ELSE IF ptype = "gemini" /\ Falsy(Or(api_key, Getenv(env, "GOOGLE_API_KEY", None)))
        THEN Raise(ApiKeyRequired("gemini"))
        ELSE Return(ptype)

\* the index of the first answer that is a failure, 0 when there is none
FirstFailure(answers) ==
    LET failing == {k \in DOMAIN answers : answers[k].kind = "raise"} IN
    IF failing = {} THEN 0 ELSE CHOOSE k \in failing : \A j \in failing : k <= j

\* the loop of analyze_issues_node: one analyze call per issue, in list
\* order; the first failing call ends the loop
AnalyzeIssues(issues, answers) ==
    LET f == FirstFailure(answers) IN
    IF f = 0
    THEN [out |-> Return([k \in DOMAIN issues |->
                             IssueAnalyzerAnalyze(issues[k], answers[k]).value]),
          log |-> answers]
    ELSE [out |-> Raise(answers[f].error), log |-> SubSeq(answers, 1, f)]

\* the loop of analyze_developers_node
AnalyzeDevelopers(developers, answers) ==
    LET f == FirstFailure(answers) IN
    IF f = 0
    THEN [out |-> Return([k \in DOMAIN developers |->
                             DeveloperAnalyzerAnalyze(developers[k], answers[k]).value]),
          log |-> answers]
    ELSE [out |-> Raise(answers[f].error), log |-> SubSeq(answers, 1, f)]

\* the provider every node builds from the state
NodeProvider(env, st) ==
    create_provider(env, st.provider_type, st.api_key, st.model_name, None)

\* each node: [out |-> Return(new state) or Raise(exception), log |-> answers consumed]
analyze_issues_node(env, st, answers) ==
    LET p == NodeProvider(env, st) IN
    IF p.raised THEN [out |-> p, log |-> <<>>]
    ELSE LET a == IssueAnalyzerInit(env, "provider", p.value) IN
         IF a.raised THEN [out |-> a, log |-> <<>>]
         ELSE LET r == AnalyzeIssues(st.issues, answers) IN
              IF r.out.raised THEN r
              ELSE [out |-> Return([st EXCEPT !.analyzed_issues = r.out.value]),
                    log |-> r.log]

analyze_developers_node(env, st, answers) ==
    LET p == NodeProvider(env, st) IN
    IF p.raised THEN [out |-> p, log |-> <<>>]
    ELSE LET a == DeveloperAnalyzerInit(env, "provider", p.value) IN
         IF a.raised THEN [out |-> a, log |-> <<>>]
         ELSE LET r == AnalyzeDevelopers(st.developers, answers) IN
              IF r.out.raised THEN r
              ELSE [out |-> Return([st EXCEPT !.analyzed_developers = r.out.value]),
                    log |-> r.log]

assign_tasks_node(env, st, answers) ==
    LET p == NodeProvider(env, st) IN
    IF p.raised THEN [out |-> p, log |-> <<>>]
    ELSE LET a == AssignmentAgentInit(env, "provider", p.value) IN
         IF a.raised THEN [out |-> a, log |-> <<>>]
         ELSE LET r == AssignmentAgentAssign(st.analyzed_issues, st.analyzed_developers,
                                             answers[1]) IN
              IF r.out.raised THEN [out |-> r.out, log |-> r.log]
              ELSE [out |-> Return([st EXCEPT !.assignments = r.out.value]),
                    log |-> r.log]

generate_notifications_node(env, st, answers) ==
    LET p == NodeProvider(env, st) IN
    IF p.raised THEN [out |-> p, log |-> <<>>]
    ELSE LET a == NotificationAgentInit(env, p.value) IN
         IF a.raised THEN [out |-> a, log |-> <<>>]
         ELSE LET r == NotificationAgentGenerate(st.assignments, answers[1]) IN
              IF r.out.raised THEN [out |-> r.out, log |-> r.log]
              ELSE [out |-> Return([st EXCEPT !.notifications = r.out.value,
                                              !.assignments = r.assignments]),
                    log |-> r.log]

RunNode(n, env, st, answers) ==
    CASE n = "analyze_issues" -> analyze_issues_node(env, st, answers)
      [] n = "analyze_developers" -> analyze_developers_node(env, st, answers)
      [] n = "assign_tasks" -> assign_tasks_node(env, st, answers)
      [] n = "generate_notifications" -> generate_notifications_node(env, st, answers)

\* the answers the backend may give to the calls of one node
NodeAnswers(n, st) ==
    CASE n = "analyze_issues" -> [1..Len(st.issues) -> IssueAnswers]
      [] n = "analyze_developers" -> [1..Len(st.developers) -> DeveloperAnswers]
      [] n = "assign_tasks" -> [1..1 -> AssignmentAnswers]
      [] n = "generate_notifications" ->
            [1..1 -> NotificationAnswers(OpenAIProvider("sk", "gpt-4o-mini"))]

\* a node raised: with the exception handling of EveryNodeRuns, the workflow
\* would go on with the next node
OnExceptionContinue(n) ==
    IF Edge(n) = END THEN [pc |-> "returned", node |-> END]
    ELSE [pc |-> "invoke", node |-> Edge(n)]

\* a node raised: neither workflow.invoke nor run_graph catches, the exception
\* reaches the caller of run_graph
OnException(n) == [pc |-> "raised", node |-> n]

\* a node returned: follow its edge; at END run_graph returns
OnReturn(n) ==
    IF Edge(n) = END THEN [pc |-> "returned", node |-> END]
    ELSE [pc |-> "invoke", node |-> Edge(n)]

----------------------------------------------------------------------------
(* Initial states: the environment and the arguments of the call *)

Environs ==
    {[n \in EnvNames |->
        CASE n = "AI_PROVIDER" -> a
          [] n = "OPENAI_API_KEY" -> o
          [] n = "GOOGLE_API_KEY" -> g
          [] OTHER -> None] :
     a \in {None, "Gemini"}, o \in {None, "sk-env"}, g \in {None, "g-env"}}

\* the environments of a run_graph call and of a create_provider call: the
\* variables above with the endpoint, and the model, of a kind set or unset
RunEnvirons ==
    {[e EXCEPT !["OLLAMA_BASE_URL"] = u] : e \in Environs, u \in {None, "http://env:2"}}

FactoryEnvirons ==
    {[e EXCEPT !["OPENAI_MODEL"] = m] : e \in RunEnvirons, m \in {None, "m-env"}}

ProviderTypes == {"openai", "gemini", "ollama", "OPENAI", "bogus"}

RunGraphArgs ==
    [issues : IssueLists, developers : DeveloperLists, api_key : {None, "sk"},
     model_name : {None, "m1"}, provider_type : ProviderTypes \cup {None}]

CreateProviderArgs ==
    [provider_type : ProviderTypes, api_key : {None, "", "sk"},
     model : {None, "m1"}, base_url : {None, "http://host:1"}]

AssignArgs ==
    [api_key : {None, "sk"}, analyzed_issues : AnalyzedIssueLists,
     analyzed_developers : AnalyzedDeveloperLists]

GenerateAssignments == {Assignment("i1", "d1"), Assignment("i2", "d2"), Assignment("i2", "d1")}

GenerateArgs ==
    [provider : {NoProvider, StubProvider, OpenAIProvider("sk", "gpt-4o-mini")},
     assignments : SeqsUpTo(GenerateAssignments, MaxAssignments)]

NoAgent == [class |-> "None"]
NoError == [type |-> "none", what |-> "none", kind |-> "none"]

\* the OAuth server is not running and the database is empty during a pipeline call
ServerIdle ==
    /\ auth_tokens = <<>>
    /\ now = 0
    /\ requests = <<>>
    /\ responses = <<>>

DatabaseIdle ==
    /\ db_repositories = <<>>
    /\ db_developers = <<>>
    /\ db_issues = <<>>

InitCallIn(o, Args, Envs) ==
    /\ ServerIdle
    /\ DatabaseIdle
    /\ environ \in Envs
    /\ op = o
    /\ args \in Args
    /\ inputs = args
    /\ pc = "start"
    /\ node = None
    /\ state = InitialState(<<>>, <<>>, None, None, None)
    /\ started = <<>>
    /\ completed = <<>>
    /\ agent = NoAgent
    /\ value = <<>>
    /\ error = NoError
    /\ backend_log = <<>>

InitCall(o, Args) == InitCallIn(o, Args, Environs)

----------------------------------------------------------------------------
(* run_graph and create_provider *)

RunGraph ==
    /\ op = "run_graph" /\ pc = "start"
    /\ LET v == RunGraphValidate(environ, args.api_key, args.provider_type) IN
       IF v.raised
       THEN /\ pc' = "raised"
            /\ error' = v.error
            /\ UNCHANGED <<node, state>>
       ELSE /\ pc' = "invoke"
            /\ node' = EntryPoint
            /\ state' = InitialState(args.issues, args.developers, args.api_key,
                                     args.model_name, v.value)
            /\ UNCHANGED error
    /\ UNCHANGED <<server, database>>
    /\ UNCHANGED <<environ, op, args, inputs, started, completed, agent, value, backend_log>>

\* workflow.invoke runs the current node and follows its edge
WorkflowInvoke ==
    /\ op = "run_graph" /\ pc = "invoke"
    /\ \E answers \in NodeAnswers(node, state) :
         LET r == RunNode(node, environ, state, answers)
             after == IF r.out.raised THEN OnException(node) ELSE OnReturn(node)
         IN  /\ started' = Append(started, node)
             /\ backend_log' = backend_log \o r.log
             /\ completed' = IF r.out.raised THEN completed ELSE Append(completed, node)
             /\ state' = IF r.out.raised THEN state ELSE r.out.value
             /\ error' = IF r.out.raised /\ after.pc = "raised" THEN r.out.error ELSE error
             /\ pc' = after.pc
             /\ node' = after.node
             /\ value' = IF after.pc = "returned" THEN state'.notifications ELSE value
    /\ UNCHANGED <<server, database>>
    /\ UNCHANGED <<environ, op, args, inputs, agent>>

CreateProviderCall ==
    /\ op = "create_provider" /\ pc = "start"
    /\ LET r == create_provider(environ, args.provider_type, args.api_key, args.model,
                                args.base_url) IN
       IF r.raised
       THEN pc' = "raised" /\ error' = r.error /\ UNCHANGED value
       ELSE pc' = "returned" /\ value' = r.value /\ UNCHANGED error
    /\ UNCHANGED <<server, database>>
    /\ UNCHANGED <<environ, op, args, inputs, node, state, started, completed, agent,
                   backend_log>>

Init ==
    \/ InitCallIn("run_graph", RunGraphArgs, RunEnvirons)
    \/ InitCallIn("create_provider", CreateProviderArgs, FactoryEnvirons)

Next == RunGraph \/ WorkflowInvoke \/ CreateProviderCall

Spec == Init /\ [][Next]_vars

----------------------------------------------------------------------------
(* AssignmentAgent(api_key=...).assign(analyzed_issues, analyzed_developers) *)

AssignConstruct ==
    /\ op = "assign" /\ pc = "start"
    /\ LET a == AssignmentAgentInit(environ, "api_key", args.api_key) IN
       IF a.raised
       THEN pc' = "raised" /\ error' = a.error /\ UNCHANGED agent
       ELSE pc' = "constructed" /\ agent' = a.value /\ UNCHANGED error
    /\ UNCHANGED <<server, database>>
    /\ UNCHANGED <<environ, op, args, inputs, node, state, started, completed, value,
                   backend_log>>

AssignCall ==
    /\ op = "assign" /\ pc = "constructed"
    /\ \E answer \in AssignmentAnswers :
         LET r == AssignmentAgentAssign(inputs.analyzed_issues, inputs.analyzed_developers,
                                        answer) IN
         /\ backend_log' = backend_log \o r.log
         /\ IF r.out.raised
            THEN pc' = "raised" /\ error' = r.out.error /\ UNCHANGED value
            ELSE pc' = "returned" /\ value' = r.out.value /\ UNCHANGED error
    /\ UNCHANGED <<server, database>>
    /\ UNCHANGED <<environ, op, args, inputs, node, state, started, completed, agent>>

InitAssign == InitCall("assign", AssignArgs)

NextAssign == AssignConstruct \/ AssignCall

SpecAssign == InitAssign /\ [][NextAssign]_vars

----------------------------------------------------------------------------
(* NotificationAgent(provider).generate(assignments) *)

NotifyConstruct ==
    /\ op = "generate" /\ pc = "start"
    /\ LET a == NotificationAgentInit(environ, args.provider) IN
       IF a.raised
       THEN pc' = "raised" /\ error' = a.error /\ UNCHANGED agent
       ELSE pc' = "constructed" /\ agent' = a.value /\ UNCHANGED error
    /\ UNCHANGED <<server, database>>
    /\ UNCHANGED <<environ, op, args, inputs, node, state, started, completed, value,
                   backend_log>>

GenerateCall ==
    /\ op = "generate" /\ pc = "constructed"
    /\ \E answer \in NotificationAnswers(agent.provider) :
         LET r == NotificationAgentGenerate(inputs.assignments, answer) IN
         /\ backend_log' = backend_log \o r.log
         /\ inputs' = [inputs EXCEPT !.assignments = r.assignments]
         /\ IF r.out.raised
            THEN pc' = "raised" /\ error' = r.out.error /\ UNCHANGED value
            ELSE pc' = "returned" /\ value' = r.out.value /\ UNCHANGED error
    /\ UNCHANGED <<server, database>>
    /\ UNCHANGED <<environ, op, args, node, state, started, completed, agent>>

InitNotify == InitCall("generate", GenerateArgs)

NextNotify == NotifyConstruct \/ GenerateCall

SpecNotify == InitNotify /\ [][NextNotify]_vars

----------------------------------------------------------------------------
(* IssueAnalyzer(api_key=...).analyze(issue) and
   DeveloperAnalyzer(api_key=...).analyze(developer) *)

AnalyzeIssueArgs == [api_key : {None, "sk"}, record : {Issue(i) : i \in IssueIds}]
AnalyzeDeveloperArgs == [api_key : {None, "sk"}, record : {Developer(d) : d \in DeveloperIds}]

AnalyzeConstruct ==
    /\ op \in {"analyze_issue", "analyze_developer"} /\ pc = "start"
    /\ LET a == IF op = "analyze_issue"
                THEN IssueAnalyzerInit(environ, "api_key", args.api_key)
                ELSE DeveloperAnalyzerInit(environ, "api_key", args.api_key) IN
       IF a.raised
       THEN pc' = "raised" /\ error' = a.error /\ UNCHANGED agent
       ELSE pc' = "constructed" /\ agent' = a.value /\ UNCHANGED error
    /\ UNCHANGED <<server, database>>
    /\ UNCHANGED <<environ, op, args, inputs, node, state, started, completed, value,
                   backend_log>>

AnalyzeIssueCall ==
    /\ op = "analyze_issue" /\ pc = "constructed"
    /\ \E answer \in IssueAnswers :
         LET r == IssueAnalyzerAnalyze(inputs.record, answer) IN
         /\ backend_log' = Append(backend_log, answer)
         /\ IF r.raised
            THEN pc' = "raised" /\ error' = r.error /\ UNCHANGED value
            ELSE pc' = "returned" /\ value' = r.value /\ UNCHANGED error
    /\ UNCHANGED <<server, database>>
    /\ UNCHANGED <<environ, op, args, inputs, node, state, started, completed, agent>>

AnalyzeDeveloperCall ==
    /\ op = "analyze_developer" /\ pc = "constructed"
    /\ \E answer \in DeveloperAnswers :
         LET r == DeveloperAnalyzerAnalyze(inputs.record, answer) IN
         /\ backend_log' = Append(backend_log, answer)
         /\ IF r.raised
            THEN pc' = "raised" /\ error' = r.error /\ UNCHANGED value
            ELSE pc' = "returned" /\ value' = r.value /\ UNCHANGED error
    /\ UNCHANGED <<server, database>>
    /\ UNCHANGED <<environ, op, args, inputs, node, state, started, completed, agent>>

InitAnalyze ==
    \/ InitCall("analyze_issue", AnalyzeIssueArgs)
    \/ InitCall("analyze_developer", AnalyzeDeveloperArgs)

NextAnalyze == AnalyzeConstruct \/ AnalyzeIssueCall \/ AnalyzeDeveloperCall

SpecAnalyze == InitAnalyze /\ [][NextAnalyze]_vars

----------------------------------------------------------------------------
(* create_provider(provider_type, api_key).get_json_completion(prompt,
   system_prompt, schema) *)

Schemas == {"IssueAnalysis", "DeveloperAnalysis", "AssignmentResult", "NotificationResult"}

\* the JSON values a backend can answer when asked for a schema: the bodies
\* above, one that lacks required fields, and null
BodiesFor(schema) ==
    (CASE schema = "IssueAnalysis" -> IssueAnalysisBodies \cup {[summary |-> "s"]}
       [] schema = "DeveloperAnalysis" -> DeveloperAnalysisBodies \cup {[strengths |-> <<"A">>]}
       [] schema = "AssignmentResult" ->
             {[assignments |-> <<>>], [assignments |-> <<Assignment("i1", "d1")>>],
              [assignments |-> <<[issue_id |-> "i1"]>>], [note |-> "no assignments key"]}
       [] schema = "NotificationResult" ->
             {[notifications |-> <<>>], [note |-> "no notifications key"]})
        \cup {JsonNull}

ProviderAnswers(schema) ==
    {JsonAnswer(b) : b \in BodiesFor(schema)}
        \cup {ErrorAnswer(t) : t \in ProviderErrorTypes}
        \cup {[kind |-> "raise", error |-> QuotingParseError]}

CompletionArgs ==
    [provider_type : {"openai", "gemini", "ollama"}, api_key : {"sk"}, model : {None, "m1"},
     base_url : {None}, schema : Schemas]

ProviderConstruct ==
    /\ op = "get_json_completion" /\ pc = "start"
    /\ LET r == create_provider(environ, args.provider_type, args.api_key, args.model,
                                args.base_url) IN
       IF r.raised
       THEN pc' = "raised" /\ error' = r.error /\ UNCHANGED agent
       ELSE pc' = "constructed" /\ agent' = r.value /\ UNCHANGED error
    /\ UNCHANGED <<server, database>>
    /\ UNCHANGED <<environ, op, args, inputs, node, state, started, completed, value,
                   backend_log>>

CompletionCall ==
    /\ op = "get_json_completion" /\ pc = "constructed"
    /\ \E answer \in ProviderAnswers(args.schema) :
         LET r == get_json_completion(agent, args.schema, answer) IN
         /\ backend_log' = Append(backend_log, answer)
         /\ IF r.raised
            THEN pc' = "raised" /\ error' = r.error /\ UNCHANGED value
            ELSE pc' = "returned" /\ value' = r.value /\ UNCHANGED error
    /\ UNCHANGED <<server, database>>
    /\ UNCHANGED <<environ, op, args, inputs, node, state, started, completed, agent>>

InitProvider == InitCall("get_json_completion", CompletionArgs)

NextProvider == ProviderConstruct \/ CompletionCall

SpecProvider == InitProvider /\ [][NextProvider]_vars

----------------------------------------------------------------------------
(* Vocabulary of the claims *)

Terminal == pc \in {"returned", "raised"}

CloudKinds == {"openai", "gemini"}

\* the environment variable that holds the credential of a cloud kind
KeyVariable(kind) == IF kind = "openai" THEN "OPENAI_API_KEY" ELSE "GOOGLE_API_KEY"

\* the provider kind a call is about
CallKind ==
    IF op = "run_graph"
    THEN Lower(IF Falsy(args.provider_type)
               THEN Getenv(environ, "AI_PROVIDER", "openai")
               ELSE args.provider_type)
    ELSE Lower(args.provider_type)

IsPrefix(s, t) == Len(s) <= Len(t) /\ \A k \in DOMAIN s : s[k] = t[k]

\* a backend answer that parses into the schema of one of the four agents
IsIssueAnalysis(b) ==
    /\ IssueAnalysisKeys \subseteq DOMAIN b
    /\ b.difficulty \in Difficulties
    /\ b.estimated_complexity \in 1..10

IsDeveloperAnalysis(b) ==
    /\ DeveloperAnalysisKeys \subseteq DOMAIN b
    /\ b.workload_state \in WorkloadStates
    /\ b.availability_hours >= 0
    /\ b.skill_match_score \in 1..10

IsAssignmentResult(b) ==
    /\ "assignments" \in DOMAIN b
    /\ \A k \in DOMAIN b.assignments : AssignmentKeys \subseteq DOMAIN b.assignments[k]

IsNotificationResult(b) ==
    /\ "notifications" \in DOMAIN b
    /\ \A k \in DOMAIN b.notifications : DOMAIN DraftFields \subseteq DOMAIN b.notifications[k].fields

Conformant(a) ==
    /\ a.kind = "json"
    /\ \/ IsIssueAnalysis(a.body)
       \/ IsDeveloperAnalysis(a.body)
       \/ IsAssignmentResult(a.body)
       \/ IsNotificationResult(a.body)

IssueIdsOf(analyzed_issues) == {analyzed_issues[k].issue_id : k \in DOMAIN analyzed_issues}
DeveloperIdsOf(analyzed_developers) ==
    {analyzed_developers[k].developer_id : k \in DOMAIN analyzed_developers}

\* one assignment per issue supplied, none for another identifier
Complete(assignments, analyzed_issues) ==
    /\ Len(assignments) = Len(analyzed_issues)
    /\ {assignments[k].issue_id : k \in DOMAIN assignments} = IssueIdsOf(analyzed_issues)
    /\ \A j, k \in DOMAIN assignments :
          j # k => assignments[j].issue_id # assignments[k].issue_id

\* every assignee is a developer supplied
Valid(assignments, analyzed_developers) ==
    \A k \in DOMAIN assignments :
        assignments[k].assigned_to \in DeveloperIdsOf(analyzed_developers)

----------------------------------------------------------------------------
(* Claims *)

C2_FailStop ==
    [][ /\ (op = "run_graph" /\ pc = "invoke" /\ completed' = completed)
            => (pc' = "raised" /\ node' = node /\ state' = state)
        /\ (op = "run_graph" /\ pc = "raised")
            => (pc' = "raised" /\ started' = started /\ backend_log' = backend_log) ]_vars

C2_Witness ==
    /\ op = "run_graph" /\ pc = "raised"
    /\ started = <<"analyze_issues">> /\ completed = <<>>

\* C3 (as claimed): a run with a valid provider configuration whose backend
\* answers all conform to their schema ends NOTIFIED, all four nodes completed,
\* and returns the notifications.
C3_ValidRunNotified ==
    (/\ op = "run_graph" /\ Terminal
     /\ ~RunGraphValidate(environ, args.api_key, args.provider_type).raised
     /\ ~NodeProvider(environ, InitialState(args.issues, args.developers, args.api_key,
                          args.model_name,
                          RunGraphValidate(environ, args.api_key, args.provider_type).value)).raised
     /\ \A k \in DOMAIN backend_log : Conformant(backend_log[k]))
    => (pc = "returned" /\ completed = Nodes /\ value = state.notifications)

\* C4 (as claimed): whenever assign returns for N analyzed issues, it returns
\* N assignments whose issue_id values are the input's identifiers, each once.
C4_Completeness ==
    (op = "assign" /\ pc = "returned") => Complete(value, args.analyzed_issues)

\* C5 (as claimed): whenever assign returns, every assigned_to is the
\* identifier of a developer of the list passed to the call.
C5_Validity ==
    (op = "assign" /\ pc = "returned") => Valid(value, args.analyzed_developers)

\* C6 (as claimed): assign accepts the backend's result if and only if it is
\* complete and valid; any other result makes it raise a SchemaValidationError.
C6_AcceptIffCompleteValid ==
    (/\ op = "assign" /\ Terminal
     /\ Len(backend_log) = 1
     /\ backend_log[1].kind = "json"
     /\ "assignments" \in DOMAIN backend_log[1].body)
    => IF /\ Complete(backend_log[1].body.assignments, args.analyzed_issues)
          /\ Valid(backend_log[1].body.assignments, args.analyzed_developers)
       THEN pc = "returned" /\ value = backend_log[1].body.assignments
       ELSE pc = "raised" /\ error.type = "SchemaValidationError"

\* C7 (as claimed): for M assignments generate returns exactly M drafts.
C7_ExactlyM ==
    (op = "generate" /\ pc = "returned") => Len(value) = Len(args.assignments)

\* C8: every element of the list generate returns carries the issue_id,
\* assigned_to, developer_name, reason and confidence_score of the assignment
\* at the same index, also when the backend's draft has keys of those names;
\* the caller's assignment list is as it was passed.
C8_PositionalCarry ==
    /\ (op = "generate" /\ pc = "returned") =>
          /\ Len(value) <= Len(args.assignments)
          /\ \A i \in DOMAIN value : \A k \in AssignmentKeys :
                k \in DOMAIN value[i] /\ value[i][k] = args.assignments[i][k]
    /\ (op = "generate") => inputs.assignments = args.assignments

C8_Witness ==
    /\ op = "generate" /\ pc = "returned"
    /\ Len(value) = 2
    /\ args.assignments[1] # args.assignments[2]
    /\ "issue_id" \in DOMAIN backend_log[1].body.notifications[1].fields
    /\ backend_log[1].body.notifications[1].fields.issue_id # args.assignments[1].issue_id

\* C9: generate called with an empty assignment list returns an empty list
\* and issues no backend call.
C9_EmptyShortCircuit ==
    (/\ op = "generate" /\ Terminal
     /\ agent.class = "NotificationAgent"
     /\ Len(args.assignments) = 0)
    => (pc = "returned" /\ value = <<>> /\ backend_log = <<>>)

C9_Witness ==
    /\ op = "generate" /\ pc = "returned"
    /\ agent.class = "NotificationAgent"
    /\ Len(args.assignments) = 0

\* C10 (as claimed): a cloud kind with no credential passed to the call ends
\* in a ConfigurationError, with no backend call issued.
C10_NoCredentialPassedRaises ==
    (/\ op \in {"create_provider", "run_graph"} /\ Terminal
     /\ CallKind \in CloudKinds
     /\ Falsy(args.api_key))
    => (pc = "raised" /\ IsConfigurationError(error) /\ backend_log = <<>>)

\* C10 (amended): a cloud kind with no credential passed to the call and none
\* in the kind's environment variable ends in a ConfigurationError: the call
\* never returns, and no backend call is issued; in a run_graph run no node
\* completes.
C10_NoCredentialAnywhereRaises ==
    (/\ op \in {"create_provider", "run_graph"}
     /\ CallKind \in CloudKinds
     /\ Falsy(args.api_key)
     /\ Falsy(Getenv(environ, KeyVariable(CallKind), None)))
    => /\ pc # "returned"
       /\ backend_log = <<>>
       /\ completed = <<>>
       /\ (pc = "raised" => error = ApiKeyRequired(CallKind))

C10_Witness ==
    /\ op = "create_provider" /\ pc = "raised"
    /\ CallKind = "gemini"
    /\ args.api_key = None
    /\ error = ApiKeyRequired("gemini")

----------------------------------------------------------------------------
RecognizedKinds == {"openai", "gemini", "ollama"}

\* C11: a call whose provider kind is none of openai, gemini, ollama never
\* returns: constructing the provider raises the unknown-provider
\* ConfigurationError; in a run_graph run this happens in the first stage, no
\* stage completes and no backend call is ever issued.
C11_UnknownKindRaises ==
    (/\ op \in {"create_provider", "run_graph"}
     /\ CallKind \notin RecognizedKinds)
    => /\ pc # "returned"
       /\ backend_log = <<>>
       /\ completed = <<>>
       /\ pc = "raised" => /\ error = UnknownProvider
                           /\ IsConfigurationError(error)
                           /\ op = "run_graph" => started = <<EntryPoint>>

C11_Witness ==
    /\ op = "run_graph" /\ pc = "raised"
    /\ CallKind = "bogus"
    /\ started = <<"analyze_issues">>
    /\ error = UnknownProvider
    /\ backend_log = <<>>

----------------------------------------------------------------------------
\* the provider a run_graph call with arguments a builds in its nodes under
\* the environment env
PipelineProvider(env, a) ==
    LET v == RunGraphValidate(env, a.api_key, a.provider_type) IN
    IF v.raised THEN v
    ELSE NodeProvider(env, InitialState(a.issues, a.developers, a.api_key,
                                        a.model_name, v.value))

SameOutcome(r, s) ==
    /\ r.raised = s.raised
    /\ r.raised => r.error = s.error
    /\ ~r.raised => r.value = s.value

\* the run_graph calls that differ from a in the configuration arguments only
ConfigOverrides(a) ==
    {[a EXCEPT !.api_key = k, !.model_name = m] : k \in {None, "sk"}, m \in {None, "m1"}}

\* C12: the configuration of a constructed provider is decided by the
\* arguments of the call alone: under every other environment the same call
\* constructs the same provider, for create_provider and for the provider a
\* run_graph call builds; and the endpoint of the local kind can be chosen by
\* the arguments of the run_graph call.
C12_ArgumentsAloneDecide ==
    /\ (op = "create_provider" /\ pc = "returned")
       => \A e \in FactoryEnvirons :
             SameOutcome(create_provider(e, args.provider_type, args.api_key,
                                         args.model, args.base_url),
                         Return(value))
    /\ (op = "run_graph" /\ started # <<>>)
       => /\ \A e \in RunEnvirons :
                SameOutcome(PipelineProvider(e, args), PipelineProvider(environ, args))
          /\ CallKind = "ollama"
             => \E b \in ConfigOverrides(args) :
                   LET p == PipelineProvider(environ, args)
                       q == PipelineProvider(environ, b)
                   IN  ~p.raised /\ ~q.raised /\ q.value.base_url # p.value.base_url

----------------------------------------------------------------------------
\* C13: the analysis IssueAnalyzer.analyze returns carries the id of the issue
\* it was given as issue_id, and the analysis DeveloperAnalyzer.analyze
\* returns carries the id and the name of the developer it was given,
\* whatever identifiers the backend's answer holds.
C13_IdentityPassThrough ==
    /\ (op = "analyze_issue" /\ pc = "returned")
       => /\ "issue_id" \in DOMAIN value
          /\ value.issue_id = args.record.id
    /\ (op = "analyze_developer" /\ pc = "returned")
       => /\ {"developer_id", "developer_name"} \subseteq DOMAIN value
          /\ value.developer_id = args.record.id
          /\ value.developer_name = args.record.name

C13_Witness ==
    /\ op = "analyze_issue" /\ pc = "returned"
    /\ Len(backend_log) = 1
    /\ "issue_id" \in DOMAIN backend_log[1].body
    /\ backend_log[1].body.issue_id = ForeignIssueId
    /\ value.issue_id = args.record.id
    /\ value.issue_id # ForeignIssueId

----------------------------------------------------------------------------
\* a run_graph call whose provider configuration is valid
ValidConfiguration ==
    /\ op = "run_graph"
    /\ ~PipelineProvider(environ, args).raised

\* ... and whose backend has answered every call so far, each answer
\* conforming to its schema
ValidRun ==
    /\ ValidConfiguration
    /\ \A k \in DOMAIN backend_log : Conformant(backend_log[k])

HasRun(n) == \E k \in DOMAIN started : started[k] = n

----------------------------------------------------------------------------
\* a JSON value that has the required fields of the schema, its enumerated
\* fields within their closed sets
ConformsTo(schema, b) ==
    CASE schema = "IssueAnalysis" -> IsIssueAnalysis(b)
      [] schema = "DeveloperAnalysis" -> IsDeveloperAnalysis(b)
      [] schema = "AssignmentResult" -> IsAssignmentResult(b)
      [] schema = "NotificationResult" -> IsNotificationResult(b)

\* the exceptions of the code nearest to the SchemaValidationError of the
\* specification
IsSchemaValidationError(e) == e.type \in {"OutputParserException", "ValidationError"}

\* C15 (as claimed): get_json_completion returns only values that conform to
\* the schema asked for; when the backend's answer does not conform, the call
\* raises a schema-validation error and returns nothing.
C15_OnlyConformantReturned ==
    /\ (op = "get_json_completion" /\ pc = "returned")
       => ConformsTo(args.schema, value)
    /\ (/\ op = "get_json_completion" /\ Terminal /\ backend_log # <<>>
        /\ backend_log[1].kind = "json"
        /\ ~ConformsTo(args.schema, backend_log[1].body))
       => (pc = "raised" /\ IsSchemaValidationError(error))

----------------------------------------------------------------------------
IssueAnalysisInRange(a) ==
    /\ {"difficulty", "estimated_complexity"} \subseteq DOMAIN a
    /\ a.difficulty \in Difficulties
    /\ a.estimated_complexity \in 1..10

DeveloperAnalysisInRange(a) ==
    /\ {"workload_state", "availability_hours", "skill_match_score"} \subseteq DOMAIN a
    /\ a.workload_state \in WorkloadStates
    /\ a.availability_hours >= 0
    /\ a.skill_match_score \in 1..10

----------------------------------------------------------------------------
ConfidenceInRange(records) ==
    \A k \in DOMAIN records :
        /\ "confidence_score" \in DOMAIN records[k]
        /\ records[k].confidence_score \in 1..10

----------------------------------------------------------------------------
\* the field of the WorkflowState a stage is to write
Designated(n) ==
    CASE n = "analyze_issues" -> "analyzed_issues"
      [] n = "analyze_developers" -> "analyzed_developers"
      [] n = "assign_tasks" -> "assignments"
      [] n = "generate_notifications" -> "notifications"

\* the fields in which the workflow state differs from the state run_graph
\* started the workflow with
ChangedFields ==
    LET initial == InitialState(args.issues, args.developers, args.api_key,
                                args.model_name, state.provider_type)
    IN  {f \in DOMAIN state : state[f] # initial[f]}

\* C18 (as claimed): in a valid run the stages that have run have changed
\* their own designated fields and nothing else: the inputs, the provider
\* configuration and the fields of the stages yet to run are as run_graph set
\* them, and an analyzer stage given a non-empty list has filled its field.
C18_OwnFieldOnly ==
    (ValidRun /\ started # <<>>)
    => /\ ChangedFields \subseteq {Designated(started[k]) : k \in DOMAIN started}
       /\ (HasRun("analyze_issues") /\ state.issues # <<>>)
          => "analyzed_issues" \in ChangedFields
       /\ (HasRun("analyze_developers") /\ state.developers # <<>>)
          => "analyzed_developers" \in ChangedFields

----------------------------------------------------------------------------
\* the stage in which a failed run failed: the last one started
FailingStage == started[Len(started)]

\* C19 (as claimed): when a stage of a run_graph run fails, the error that
\* reaches the caller names the failing stage.
C19_ErrorNamesStage ==
    (op = "run_graph" /\ pc = "raised" /\ started # <<>>)
    => /\ "stage" \in DOMAIN error
       /\ error.stage = FailingStage

----------------------------------------------------------------------------
\* the backend calls the claim gives a stage: one per record in the analyzer
\* stages, one batched call in the assignment stage, one in the notification
\* stage unless the assignment list is empty
CallsOf(n) ==
    CASE n = "analyze_issues" -> Len(state.issues)
      [] n = "analyze_developers" -> Len(state.developers)
      [] n = "assign_tasks" -> 1
      [] n = "generate_notifications" -> IF state.assignments = <<>> THEN 0 ELSE 1

RECURSIVE CallsOfStages(_)
CallsOfStages(stages) ==
    IF stages = <<>> THEN 0 ELSE CallsOf(Head(stages)) + CallsOfStages(Tail(stages))

----------------------------------------------------------------------------
\* the answer the backend gave to the call of a get_json_completion behaviour
TheAnswer == backend_log[1]

Answered == op = "get_json_completion" /\ Terminal /\ backend_log # <<>>

\* the backend rejected the model: the error text holds 404 and not found
IsModelNotFoundRejection(a) ==
    a.kind = "raise" /\ {"404", "not found"} \subseteq ErrorText(a.error)

\* the connection to the backend failed
IsRefusedConnection(a) == a.kind = "raise" /\ a.error.type = "APIConnectionError"

\* C23 (as claimed): the Gemini provider turns a model-not-found rejection
\* into the model-not-found error, the local provider turns a refused
\* connection into the cannot-connect error, the two differ from each other
\* and from the configuration errors, and every other exception of the
\* backend reaches the caller as it was raised.
C23_ErrorTranslation ==
    /\ ModelNotFound # CannotConnect
    /\ ~IsConfigurationError(ModelNotFound) /\ ~IsConfigurationError(CannotConnect)
    /\ (Answered /\ agent.class = "GeminiProvider" /\ IsModelNotFoundRejection(TheAnswer))
       => (pc = "raised" /\ error = ModelNotFound)
    /\ (Answered /\ agent.class = "OllamaProvider" /\ IsRefusedConnection(TheAnswer))
       => (pc = "raised" /\ error = CannotConnect)
    /\ (/\ Answered /\ TheAnswer.kind = "raise"
        /\ ~(agent.class = "GeminiProvider" /\ IsModelNotFoundRejection(TheAnswer))
        /\ ~(agent.class = "OllamaProvider" /\ IsRefusedConnection(TheAnswer)))
       => (pc = "raised" /\ error = TheAnswer.error)

----------------------------------------------------------------------------
\* the analyzer a direct analyze call works with, as its constructor built it
ConstructedAnalyzer ==
    IF op = "analyze_issue"
    THEN IssueAnalyzerInit(environ, "api_key", args.api_key)
    ELSE DeveloperAnalyzerInit(environ, "api_key", args.api_key)

\* C24 (as claimed): an analysis is decided by the record and the backend's
\* answer alone, so that a second call with the same record and the same
\* answer returns an equal analysis; analyze leaves the input record and the
\* analyzer as they were; and every provider create_provider builds has the
\* temperature 0.
C24_IdempotentAtZeroTemperature ==
    /\ (op \in {"analyze_issue", "analyze_developer"} /\ pc # "start")
       => /\ inputs = args
          /\ pc # "raised" \/ backend_log # <<>> => agent = ConstructedAnalyzer.value
    /\ (op = "analyze_issue" /\ pc = "returned")
       => value = IssueAnalyzerAnalyze(args.record, backend_log[1]).value
    /\ (op = "analyze_developer" /\ pc = "returned")
       => value = DeveloperAnalyzerAnalyze(args.record, backend_log[1]).value
    /\ (op = "get_json_completion" /\ pc # "start" /\ agent # NoAgent)
       => agent.temperature = 0

----------------------------------------------------------------------------
\* C26 (as claimed): for a backend answer that parsed, generate returns the
\* drafts merged with the assignments up to the shorter of the two lists, so
\* never more elements than assignments: drafts beyond the last assignment are
\* dropped, and an answer without the notifications key gives the empty list
\* and no error.
C26_TruncatedToAssignments ==
    (/\ op = "generate" /\ Terminal /\ backend_log # <<>>
     /\ backend_log[1].kind = "json")
    => /\ pc = "returned"
       /\ Len(value) = Min(Len(GetNotifications(backend_log[1].body)), Len(args.assignments))
       /\ Len(value) <= Len(args.assignments)
       /\ "notifications" \notin DOMAIN backend_log[1].body => value = <<>>

----------------------------------------------------------------------------
----------------------------------------------------------------------------
(* oauth_server: the Google callback and /auth/verify.  app.run serves     *)
(* every request on a thread of its own, so the handlers of concurrent     *)
(* requests interleave between their accesses to auth_tokens.              *)

MaxRequests == 3
MaxCallbacks == 2
MaxTime == 2

\* timedelta(hours=24), in days
TokenLifetime == 1

Users == {[user_id |-> 1, username |-> "ada"], [user_id |-> 2, username |-> "bob"]}

\* secrets.token_urlsafe(32): the n-th value drawn, different from every other
token_urlsafe(n) == "tok" \o ToString(n)

CallbackResponses == SelectSeq(responses, LAMBDA r : r.route = "/auth/google/callback")

\* the tokens the callback has redirected a client with
IssuedTokens == {responses[i].token : i \in {j \in DOMAIN responses : responses[j].status = 302}}

\* request.args.get('token') of a client: nothing, a made-up value, or a token
\* some callback has redirected with
PresentedTokens == {None, "forged"} \cup IssuedTokens

Threads == 1..MaxRequests

IdleThread == [pc |-> "idle", token |-> None, expires_at |-> 0]

Response(route, status, valid, token, user_id) ==
    [route |-> route, status |-> status, valid |-> valid, token |-> token,
     user_id |-> user_id]

Store(tokens, token, data) ==
    [t \in DOMAIN tokens \cup {token} |-> IF t = token THEN data ELSE tokens[t]]

Remove(tokens, token) == [t \in DOMAIN tokens \ {token} |-> tokens[t]]

\* an exception leaving a view: the server answers 500 without a JSON body
ServerError(token) == Response("/auth/verify", 500, "none", token, 0)

Invalid(token) == Response("/auth/verify", 401, "false", token, 0)

\* google_callback: the exchange with Google succeeds for some user or raises
GoogleCallback ==
    /\ op = "serve"
    /\ Len(CallbackResponses) < MaxCallbacks
    /\ \/ \E user \in Users :
            LET session_token == token_urlsafe(Cardinality(IssuedTokens) + 1) IN
            /\ auth_tokens' = Store(auth_tokens, session_token,
                                    [user_id |-> user.user_id,
                                     username |-> user.username,
                                     expires_at |-> now + TokenLifetime])
            /\ responses' = Append(responses,
                                   Response("/auth/google/callback", 302, "none",
                                            session_token, user.user_id))
       \/ /\ responses' = Append(responses,
                                 Response("/auth/google/callback", 400, "none", None, 0))
          /\ UNCHANGED auth_tokens
    /\ UNCHANGED <<now, requests, pipeline, database>>

\* a /auth/verify request arrives and is handed to a thread
VerifyArrive(r) ==
    /\ op = "serve"
    /\ requests[r].pc = "idle"
    /\ \E token \in PresentedTokens :
         requests' = [requests EXCEPT ![r] = [IdleThread EXCEPT !.pc = "check",
                                                               !.token = token]]
    /\ UNCHANGED <<auth_tokens, now, responses, pipeline, database>>

\* if not token or token not in auth_tokens: return {'valid': False}, 401
VerifyCheck(r) ==
    /\ requests[r].pc = "check"
    /\ LET token == requests[r].token IN
       IF token = None \/ token \notin DOMAIN auth_tokens
       THEN /\ responses' = Append(responses, Invalid(token))
            /\ requests' = [requests EXCEPT ![r].pc = "done"]
       ELSE /\ requests' = [requests EXCEPT ![r].pc = "read"]
            /\ UNCHANGED responses
    /\ UNCHANGED <<auth_tokens, now, pipeline, database>>

\* token_data = auth_tokens[token]
VerifyRead(r) ==
    /\ requests[r].pc = "read"
    /\ LET token == requests[r].token IN
       IF token \notin DOMAIN auth_tokens
       THEN /\ responses' = Append(responses, ServerError(token))
            /\ requests' = [requests EXCEPT ![r].pc = "done"]
       ELSE /\ requests' = [requests EXCEPT ![r].pc = "expiry",
                                            ![r].expires_at = auth_tokens[token].expires_at]
            /\ UNCHANGED responses
    /\ UNCHANGED <<auth_tokens, now, pipeline, database>>

\* if datetime.utcnow() > token_data['expires_at']
VerifyExpiry(r) ==
    /\ requests[r].pc = "expiry"
    /\ requests' = [requests EXCEPT ![r].pc = IF now > requests[r].expires_at
                                              THEN "delete" ELSE "pop"]
    /\ UNCHANGED <<auth_tokens, now, responses, pipeline, database>>

\* del auth_tokens[token]; return {'valid': False}, 401
VerifyDelete(r) ==
    /\ requests[r].pc = "delete"
    /\ LET token == requests[r].token IN
       IF token \notin DOMAIN auth_tokens
       THEN /\ responses' = Append(responses, ServerError(token))
            /\ UNCHANGED auth_tokens
       ELSE /\ auth_tokens' = Remove(auth_tokens, token)
            /\ responses' = Append(responses, Invalid(token))
    /\ requests' = [requests EXCEPT ![r].pc = "done"]
    /\ UNCHANGED <<now, pipeline, database>>

\* user_data = auth_tokens.pop(token); return {'valid': True, ...}
VerifyPop(r) ==
    /\ requests[r].pc = "pop"
    /\ LET token == requests[r].token IN
       IF token \notin DOMAIN auth_tokens
       THEN /\ responses' = Append(responses, ServerError(token))
            /\ UNCHANGED auth_tokens
       ELSE /\ auth_tokens' = Remove(auth_tokens, token)
            /\ responses' = Append(responses,
                                   Response("/auth/verify", 200, "true", token,
                                            auth_tokens[token].user_id))
    /\ requests' = [requests EXCEPT ![r].pc = "done"]
    /\ UNCHANGED <<now, pipeline, database>>

\* the clock of datetime.utcnow() advances
Tick ==
    /\ op = "serve"
    /\ now < MaxTime
    /\ now' = now + 1
    /\ UNCHANGED <<auth_tokens, requests, responses, pipeline, database>>

\* no pipeline call is in progress while the server or the database is modelled
PipelineIdle(o) ==
    /\ environ = [n \in EnvNames |-> None]
    /\ op = o
    /\ args = <<>>
    /\ inputs = <<>>
    /\ pc = "start"
    /\ node = None
    /\ state = InitialState(<<>>, <<>>, None, None, None)
    /\ started = <<>>
    /\ completed = <<>>
    /\ agent = NoAgent
    /\ value = <<>>
    /\ error = NoError
    /\ backend_log = <<>>

InitOAuth ==
    /\ PipelineIdle("serve")
    /\ DatabaseIdle
    /\ auth_tokens = <<>>
    /\ now = 0
    /\ requests = [r \in Threads |-> IdleThread]
    /\ responses = <<>>

NextOAuth ==
    \/ GoogleCallback
    \/ Tick
    \/ \E r \in Threads :
         \/ VerifyArrive(r)
         \/ VerifyCheck(r)
         \/ VerifyRead(r)
         \/ VerifyExpiry(r)
         \/ VerifyDelete(r)
         \/ VerifyPop(r)

SpecOAuth == InitOAuth /\ [][NextOAuth]_vars

VerifyResponses == {i \in DOMAIN responses : responses[i].route = "/auth/verify"}

\* C28: an OAuth session token is single use: over any interleaving of
\* /auth/verify requests a token issued by the Google callback yields
\* valid:true at most once, and every other verify yields valid:false, the
\* token being absent from auth_tokens once a verify of it has been answered.
C28_SingleUse ==
    /\ \A i, j \in VerifyResponses :
         (/\ responses[i].valid = "true"
          /\ responses[j].valid = "true"
          /\ responses[i].token = responses[j].token) => i = j
    /\ \A i \in VerifyResponses :
         /\ responses[i].valid \in {"true", "false"}
         /\ responses[i].token \notin DOMAIN auth_tokens


----------------------------------------------------------------------------
(* data_source_manager: get_data_from_github over the tables of database.py. *)
(* Calls follow one another; each call is one session.                       *)

MaxFetched == 2
MaxIssueRows == 2

\* a repo_url argument: an optional prefix, path segments, an optional final "/"
RepoUrls ==
    {[prefix |-> "https://github.com/", parts |-> <<"o", "r">>, slash |-> FALSE],
     [prefix |-> "", parts |-> <<"o", "r", "issues">>, slash |-> TRUE],
     [prefix |-> "github.com/", parts |-> <<"p", "q">>, slash |-> FALSE],
     [prefix |-> "", parts |-> <<"o">>, slash |-> FALSE]}

InvalidUrl == [type |-> "ValueError", what |-> "Invalid repository URL format",
               kind |-> "none"]

GithubError == [type |-> "ValueError", what |-> "GitHub API rate limit exceeded",
                kind |-> "none"]

\* parse_repo_url removes the prefix and the outer "/", splits by "/" and keeps
\* the first two segments
parse_repo_url(repo_url) ==
    IF Len(repo_url.parts) >= 2
    THEN Return(<<repo_url.parts[1], repo_url.parts[2]>>)
    ELSE Raise(InvalidUrl)

GithubIds == {"g1"}

Usernames == {"u1", "u2"}

\* what GithubConnector.fetch_issues and fetch_contributors give: a list or
\* an exception
FetchedIssues ==
    {Raise(GithubError)} \cup {Return(l) : l \in SeqsUpTo(GithubIds, MaxFetched)}

FetchedContributors ==
    {Raise(GithubError)} \cup {Return(l) : l \in SeqsUpTo(Usernames, MaxFetched)}

\* the None of a query without a matching row
NoRow == [id |-> 0]

\* filter_by(...).first(): the first matching row, None when there is none
first(rows, matching) ==
    IF matching = {} THEN NoRow
    ELSE rows[CHOOSE i \in matching : \A j \in matching : i <= j]

\* mutant of get_by_github_username: looks at the newest row only
get_by_github_username_newest(rows, username) ==
    first(rows, {i \in DOMAIN rows : i = Len(rows) /\ rows[i].github_username = username})

get_by_url(rows, url) == first(rows, {i \in DOMAIN rows : rows[i].url = url})

get_by_github_username(rows, username) ==
    first(rows, {i \in DOMAIN rows : rows[i].github_username = username})

\* session.add, commit, refresh: the row gets the next id
RepositoryCreate(rows, url) ==
    Append(rows, [id |-> Len(rows) + 1, url |-> url, name |-> url[2], owner |-> url[1]])

IssueCreate(rows, repo_id, github_id) ==
    Append(rows, [id |-> Len(rows) + 1, repo_id |-> repo_id, github_id |-> github_id])

DeveloperCreate(rows, repo_id, github_username) ==
    Append(rows, [id |-> Len(rows) + 1, repo_id |-> repo_id,
                  github_username |-> github_username])

RECURSIVE StoreIssues(_, _, _)
StoreIssues(rows, repo_id, github_issues) ==
    IF github_issues = <<>> THEN rows
    ELSE StoreIssues(IssueCreate(rows, repo_id, Head(github_issues)), repo_id,
                     Tail(github_issues))

\* the loop over github_devs: [rows, developers] after it
RECURSIVE StoreDevelopers(_, _, _, _)
StoreDevelopers(rows, repo_id, github_devs, developers) ==
    IF github_devs = <<>> THEN [rows |-> rows, developers |-> developers]
    ELSE LET existing == get_by_github_username(rows, Head(github_devs)) IN
         IF existing = NoRow
         THEN LET created == DeveloperCreate(rows, repo_id, Head(github_devs)) IN
              StoreDevelopers(created, repo_id, Tail(github_devs),
                              Append(developers, created[Len(created)]))
         ELSE StoreDevelopers(rows, repo_id, Tail(github_devs),
                              Append(developers, existing))

\* get_data_from_github: the tables after the call, the answers it received
\* and its outcome
get_data_from_github(repos, devs, iss, repo_url, fetched_issues, fetched_devs) ==
    LET parsed == parse_repo_url(repo_url) IN
    IF parsed.raised
    THEN [repositories |-> repos, developers |-> devs, issues |-> iss,
          log |-> <<>>, out |-> parsed]
    ELSE
    LET found == get_by_url(repos, parsed.value)
        repos1 == IF found = NoRow THEN RepositoryCreate(repos, parsed.value) ELSE repos
        repo == IF found = NoRow THEN repos1[Len(repos1)] ELSE found
    IN
    IF fetched_issues.raised
    THEN [repositories |-> repos1, developers |-> devs, issues |-> iss,
          log |-> <<fetched_issues>>, out |-> fetched_issues]
    ELSE
    LET iss1 == StoreIssues(iss, repo.id, fetched_issues.value) IN
    IF fetched_devs.raised
    THEN [repositories |-> repos1, developers |-> devs, issues |-> iss1,
          log |-> <<fetched_issues, fetched_devs>>, out |-> fetched_devs]
    ELSE
    LET stored == StoreDevelopers(devs, repo.id, fetched_devs.value, <<>>) IN
    [repositories |-> repos1, developers |-> stored.rows, issues |-> iss1,
     log |-> <<fetched_issues, fetched_devs>>,
     out |-> Return([issues |-> fetched_issues.value,
                     developers |-> [i \in DOMAIN stored.developers |->
                                        stored.developers[i].github_username],
                     repo_id |-> repo.id])]

GetDataFromGithub ==
    /\ op = "get_data_from_github"
    /\ Len(db_issues) < MaxIssueRows
    /\ \E repo_url \in RepoUrls, fetched_issues \in FetchedIssues,
          fetched_devs \in FetchedContributors :
         \E r \in {get_data_from_github(db_repositories, db_developers, db_issues,
                                         repo_url, fetched_issues, fetched_devs)} :
             /\ db_repositories' = r.repositories
             /\ db_developers' = r.developers
             /\ db_issues' = r.issues
             /\ args' = [repo_url |-> repo_url]
             /\ backend_log' = r.log
             /\ IF r.out.raised
                THEN pc' = "raised" /\ error' = r.out.error /\ value' = <<>>
                ELSE pc' = "returned" /\ value' = r.out.value /\ error' = NoError
    /\ UNCHANGED <<environ, op, inputs, node, state, started, completed, agent, server>>

InitData ==
    /\ PipelineIdle("get_data_from_github")
    /\ ServerIdle
    /\ DatabaseIdle

NextData == GetDataFromGithub

SpecData == InitData /\ [][NextData]_vars

UniqueRepositoryUrls ==
    \A i, j \in DOMAIN db_repositories :
        db_repositories[i].url = db_repositories[j].url => i = j

UniqueGithubUsernames ==
    \A i, j \in DOMAIN db_developers :
        db_developers[i].github_username = db_developers[j].github_username => i = j

UsernamesStored(rows) == {rows[i].github_username : i \in DOMAIN rows}

\* the rows a call added to a table
Added(before, after) == SubSeq(after, Len(before) + 1, Len(after))

\* a call reuses the developers it finds and stores every issue it was given
ReusesAndStores ==
    /\ Len(db_developers') >= Len(db_developers)
    /\ SubSeq(db_developers', 1, Len(db_developers)) = db_developers
    /\ UsernamesStored(Added(db_developers, db_developers'))
           \cap UsernamesStored(db_developers) = {}
    /\ (Len(backend_log') >= 1 /\ ~backend_log'[1].raised) =>
           /\ Len(db_issues') = Len(db_issues) + Len(backend_log'[1].value)
           /\ SubSeq(db_issues', 1, Len(db_issues)) = db_issues
           /\ [i \in 1..Len(backend_log'[1].value) |->
                  db_issues'[Len(db_issues) + i].github_id] = backend_log'[1].value

\* C29: after any sequence of get_data_from_github calls there is at most
\* one Repository row per url and at most one Developer row per GitHub
\* username; a call creates no developer whose username already has a row in
\* any repository, and stores every issue it fetched as a new Issue row.
C29_OneRecordEach ==
    /\ [](UniqueRepositoryUrls /\ UniqueGithubUsernames)
    /\ [][op = "get_data_from_github" => ReusesAndStores]_vars

\* two repositories are stored, a developer of the first was returned by a
\* call for the second without a new row, and an issue was stored twice
C29_Witness ==
    /\ Len(db_repositories) = 2
    /\ pc = "returned"
    /\ value.repo_id = 2
    /\ \E i \in DOMAIN db_developers :
         /\ db_developers[i].repo_id = 1
         /\ \E k \in DOMAIN value.developers :
              value.developers[k] = db_developers[i].github_username
    /\ \E i, j \in DOMAIN db_issues :
         i # j /\ db_issues[i].github_id = db_issues[j].github_id


----------------------------------------------------------------------------
\* run_graph, local kind: the endpoint of the line "Using Ollama at ..."
ReportedEndpoint(env) == Getenv(env, "OLLAMA_BASE_URL", "http://localhost:11434")

DefaultModelOf(kind) ==
    CASE kind = "openai" -> "gpt-4o-mini"
      [] kind = "gemini" -> "gemini-1.5-pro"
      [] OTHER -> "llama-3.2-1b-instruct"

\* a create_provider call that omitted the model got the default model of its kind
DefaultModelUsed ==
    (op = "create_provider" /\ pc = "returned" /\ args.model = None) =>
        value.model = DefaultModelOf(Lower(args.provider_type))

\* a create_provider call for the local kind that omitted the endpoint got
\* http://localhost:1234
DefaultEndpointUsed ==
    (/\ op = "create_provider" /\ pc = "returned"
     /\ value.class = "OllamaProvider" /\ args.base_url = None) =>
        value.base_url = "http://localhost:1234"

\* a run for the local kind reported the endpoint of the provider its nodes build
ReportedIsCalled ==
    (op = "run_graph" /\ pc # "start" /\ state.provider_type = "ollama") =>
        ReportedEndpoint(environ) = NodeProvider(environ, state).value.base_url

\* C30: when model or endpoint is omitted the factory uses the default of
\* the requested kind (gpt-4o-mini, gemini-1.5-pro, llama-3.2-1b-instruct at
\* http://localhost:1234), and the endpoint run_graph reports for the local
\* kind is the endpoint of the provider that is constructed.
C30_DefaultsAndReportedEndpoint ==
    /\ DefaultModelUsed
    /\ DefaultEndpointUsed
    /\ ReportedIsCalled

====
